---- MODULE Spec2Model ----
(***************************************************************************)
(* AtomModelTrainer (idiaptts/src/model_trainers/wcad/AtomModelTrainer.py): *)
(* reconstruction of lf0 from atoms, its alignment against the phrase      *)
(* curve and the extracted WORLD features, and the synthesis entry points  *)
(* synthesize, synth_ref_wcad, synth_phrase and generate_audio_features.   *)
(*                                                                         *)
(* A feature matrix is a sequence of frames, a frame a sequence of         *)
(* NumCols values: num_coded_sps MGC columns, lf0, vuv, then BAP.          *)
(* Python indices are 0-based, TLA+ sequences 1-based: column k of the     *)
(* code is position k + 1 here.  A numpy slice of a matrix is a view       *)
(* [lo, hi) onto the rows of the matrix it was cut from.                   *)
(***************************************************************************)
EXTENDS Integers, Sequences, FiniteSets, TLC

\* ---------------------------------------------------------------- bounds
Ids == {"a", "b"}
\* Longest label, phrase curve and extracted feature file, in frames.
MaxFrames == 2
\* Longest synth_file_suffix, in appended identifiers.
MaxSuffixTags == 1
\* hparams.num_coded_sps: the number of MGC columns.
num_coded_sps == 1
\* The values an atom contour takes; the phrase curve lifts them over the
\* silence threshold or not.
AtomValues == {-1, 2}

\* ------------------------------------------------- WorldFeatLabelGen side
\* Number of BAP columns of a sample loaded without deltas.
NumBap == 1
NumCols == num_coded_sps + 2 + NumBap
\* math.log(WorldFeatLabelGen.f0_silence_threshold), on the integer grid of
\* the model's lf0 values.
LogF0SilenceThreshold == 3
lf0_zero == 0

Min(a, b) == IF a <= b THEN a ELSE b
Max(a, b) == IF a >= b THEN a ELSE b

\* Position of the code's column k (k >= 0), and of its column -k.
Col(k) == k + 1
NegCol(k) == NumCols - k + 1
Lf0Col == Col(num_coded_sps)
\* A plausible slip: the vuv lands one column further, on the BAP.
VuvColShifted == Col(num_coded_sps + 2)
VuvCol == Col(num_coded_sps + 1)

VARIABLES
    world_len,                  \* id -> frames of the features extracted from audio
    atom_contour,               \* id -> atoms_to_lf0 of the id's label (len(label) frames)
    phrase_file,                \* id -> the id's phrase curve file
    synth_acoustic_model_path,  \* hparams: "None" or the path of an acoustic model
    synth_file_suffix,          \* hparams: sequence of the identifiers appended
    f_synthesize,               \* trainer attributes
    OutputGen,
    model_handler,
    op,                         \* the last operation called, its ids and how it ended
    op_ids,
    op_status,
    gaf_status,                 \* generate_audio_features in the last operation
    gaf_before,                 \* the three attributes right before that call
    ras_status,                 \* run_atom_synth in the last operation
    recon_dict,                 \* its recon_dict
    full_output,                \* its return value
    vocoder_in,                 \* what the last operation handed to the vocoder
    vocoder_suffix              \* hparams.synth_file_suffix during that vocoder run

vars == <<world_len, atom_contour, phrase_file, synth_acoustic_model_path,
          synth_file_suffix, f_synthesize, OutputGen, model_handler,
          op, op_ids, op_status, gaf_status, gaf_before,
          ras_status, recon_dict, full_output, vocoder_in, vocoder_suffix>>

files == <<world_len, atom_contour, phrase_file, synth_acoustic_model_path>>

\* ------------------------------------------------------------ file system
SeqsUpTo(S, n) == UNION {[1..k -> S] : k \in 0..n}

\* The phrase curve of an utterance: frame i holds PhraseValue(i).
PhraseValue(i) == IF i % 2 = 1 THEN 3 ELSE 5
PhraseCurves == {[i \in 1..k |-> PhraseValue(i)] : k \in 0..MaxFrames}

\* WorldFeatLabelGen.load_sample(id, world_dir, add_deltas=False): every cell
\* of the extracted matrix is told apart by its frame and its column.
ExtractedCell(i, c) == 10 * c + i
load_sample(id) ==
    [i \in 1..world_len[id] |-> [c \in 1..NumCols |-> ExtractedCell(i, c)]]

load_extracted_audio_features(ids) == [id \in ids |-> load_sample(id)]

\* np.fromfile(dir_labels/id + ext_phrase)
get_phrase_file(id) == phrase_file[id]

\* atoms_to_lf0(labels_to_atoms(label), num_frames=len(label))
atoms_to_lf0(id) == atom_contour[id]

\* ------------------------------------------------------ numpy and slicing
\* A slice bound k on a sequence of n frames.
SliceBound(n, k) == IF k >= 0 THEN Min(k, n) ELSE Max(n + k, 0)

\* seq[:n]
Head_(seq, n) == SubSeq(seq, 1, SliceBound(Len(seq), n))
\* seq[-n:], the slip of cutting the other end.
Tail_(seq, n) == SubSeq(seq, Len(seq) - Min(Len(seq), n) + 1, Len(seq))

FullView(matrix) == [lo |-> 0, hi |-> Len(matrix)]
ViewLen(view) == view.hi - view.lo

\* WorldFeatLabelGen.trim_end_sample(sample, length, reverse)
trim_end_sample(view, length, reverse) ==
    IF length = 0 THEN view
    ELSE IF reverse
         THEN [lo |-> view.lo + SliceBound(ViewLen(view), length), hi |-> view.hi]
         ELSE [lo |-> view.lo, hi |-> view.lo + SliceBound(ViewLen(view), -length)]

\* view[:, col] = vals is accepted when vals has the view's frames or one frame.
CanAssign(view, vals) == Len(vals) = ViewLen(view) \/ Len(vals) = 1

AssignColumn(matrix, view, col, vals) ==
    [i \in 1..Len(matrix) |->
        IF view.lo < i /\ i <= view.hi
        THEN [matrix[i] EXCEPT ![col] =
                 IF Len(vals) = 1 THEN vals[1] ELSE vals[i - view.lo]]
        ELSE matrix[i]]

\* int(len_diff / 2): the quotient truncated towards zero.
TruncHalf(d) == IF d >= 0 THEN d \div 2 ELSE -((-d) \div 2)

\* --------------------------------------------- get_recon_from_synth_output
\* The slip of keeping the last n frames of the phrase curve.
PhraseCutTail(id, n) == Tail_(get_phrase_file(id), n)
\* np.fromfile(...)[:len(reconstruction)]
PhraseCut(id, n) == Head_(get_phrase_file(id), n)

\* reconstruction[:len(phrase_curve)] += phrase_curve
AddPhrase(reconstruction, phrase_curve) ==
    [i \in 1..Len(reconstruction) |->
        IF i <= Len(phrase_curve) THEN reconstruction[i] + phrase_curve[i]
        ELSE reconstruction[i]]

\* reconstruction[reconstruction <= log(f0_silence_threshold)] = lf0_zero
SilenceToZero(reconstruction) ==
    [i \in 1..Len(reconstruction) |->
        IF reconstruction[i] <= LogF0SilenceThreshold THEN lf0_zero
        ELSE reconstruction[i]]

Reconstruction(id) ==
    LET reconstruction == atoms_to_lf0(id)
        phrase_curve == PhraseCut(id, Len(reconstruction))
    IN SilenceToZero(AddPhrase(reconstruction, phrase_curve))

get_recon_from_synth_output(ids) == [id \in ids |-> Reconstruction(id)]

\* ---------------------------------------------------------- run_atom_synth
\* The slip of giving the front the larger half of an odd difference.
FrontTrimCeil(len_diff) == len_diff - TruncHalf(len_diff)
FrontTrim(len_diff) == TruncHalf(len_diff)
EndTrim(len_diff) == len_diff - TruncHalf(len_diff)

\* full_sample after the two trim_end_sample calls: a view onto full_output[id].
TrimmedView(matrix, lf0) ==
    LET len_diff == Len(matrix) - Len(lf0)
        front == trim_end_sample(FullView(matrix), FrontTrim(len_diff), TRUE)
    IN trim_end_sample(front, EndTrim(len_diff), FALSE)

Vuv(lf0) == [i \in 1..Len(lf0) |-> IF lf0[i] <= LogF0SilenceThreshold THEN 0 ELSE 1]

\* The matrix stored under an id once its lf0 and vuv are written.
WriteLf0(matrix, lf0) ==
    LET view == TrimmedView(matrix, lf0)
    IN AssignColumn(AssignColumn(matrix, view, Lf0Col, lf0), view, VuvCol, Vuv(lf0))

NoDict == [isNone |-> FALSE, dict |-> <<>>]
NoneValue == [isNone |-> TRUE, dict |-> <<>>]
NotCalled == [called |-> FALSE, isNone |-> FALSE, dict |-> <<>>]
Handed(out) == [called |-> TRUE, isNone |-> out.isNone, dict |-> out.dict]

\* run_atom_synth(file_id_list, synth_output, hparams), the keys of synth_output
\* being file_id_list; synth_ok tells whether the base-class synth call inside
\* generate_audio_features returns.
run_atom_synth(ids, synth_ok) ==
    IF synth_acoustic_model_path = "None"
    THEN LET loaded == load_extracted_audio_features(ids)
             recon == get_recon_from_synth_output(ids)
         IN IF \A id \in ids : CanAssign(TrimmedView(loaded[id], recon[id]), recon[id])
            THEN [status |-> "returned", recon |-> recon,
                  out |-> [isNone |-> FALSE,
                           dict |-> [id \in ids |-> WriteLf0(loaded[id], recon[id])]]]
            ELSE [status |-> "ValueError", recon |-> recon, out |-> NoDict]
    ELSE IF ~synth_ok
         THEN [status |-> "SynthError", recon |-> <<>>, out |-> NoDict]
         ELSE \* generate_audio_features has no return statement.
              IF ids # {}
              THEN [status |-> "TypeError",
                    recon |-> get_recon_from_synth_output(ids), out |-> NoDict]
              ELSE [status |-> "returned",
                    recon |-> get_recon_from_synth_output(ids), out |-> NoneValue]

\* ------------------------------------------------- generate_audio_features
Attributes == [f |-> f_synthesize, og |-> OutputGen, mh |-> model_handler]

\* The attributes once generate_audio_features has ended.
AfterGenerate(synth_ok) ==
    IF synth_ok
    THEN [f |-> "synthesize", og |-> OutputGen, mh |-> model_handler]
    ELSE [f |-> "save_audio_features", og |-> "AudioGen", mh |-> "acoustic_model_handler"]

\* The attribute and bookkeeping updates of an operation that reaches
\* generate_audio_features (ran) or does not.
GenerateStep(ran, synth_ok) ==
    IF ran
    THEN /\ f_synthesize' = AfterGenerate(synth_ok).f
         /\ OutputGen' = AfterGenerate(synth_ok).og
         /\ model_handler' = AfterGenerate(synth_ok).mh
         /\ gaf_before' = Attributes
         /\ gaf_status' = IF synth_ok THEN "returned" ELSE "raised"
    ELSE /\ UNCHANGED <<f_synthesize, OutputGen, model_handler, gaf_before>>
         /\ gaf_status' = "not_called"

\* The vocoder (Synthesiser.run_world_synth, ModelTrainer.synthesize) iterates
\* over the dict it is handed; otherwise it returns or raises on its own.
VocoderStatus(out, voc_ok) ==
    IF out.isNone THEN "TypeError"
    ELSE IF voc_ok THEN "returned" ELSE "VocoderError"

\* ------------------------------------------------------------------ state
\* The files of utterance "a" are any within the bounds: its label, its phrase
\* curve and its extracted features differ in length at will.  Every other
\* utterance is the one-frame voiced utterance whose three files agree.
AlignedFile == [world_len |-> 1, atom_contour |-> <<2>>, phrase_file |-> <<3>>]
Aligned(f, file) == \A id \in Ids \ {"a"} : f[id] = file

\* Whether the base-class synth call returns matters only when it is reached.
SynthOutcomes == IF synth_acoustic_model_path = "None" THEN {TRUE} ELSE BOOLEAN

Init ==
    /\ world_len \in {f \in [Ids -> 0..MaxFrames] : Aligned(f, AlignedFile.world_len)}
    /\ atom_contour \in
           {f \in [Ids -> SeqsUpTo(AtomValues, MaxFrames)] :
               Aligned(f, AlignedFile.atom_contour)}
    /\ phrase_file \in {f \in [Ids -> PhraseCurves] : Aligned(f, AlignedFile.phrase_file)}
    /\ synth_acoustic_model_path \in {"None", "model"}
    /\ synth_file_suffix = <<>>
    /\ f_synthesize = "synthesize"
    /\ OutputGen = "AtomLabelGen"
    /\ model_handler = "atom_model_handler"
    /\ op = "none"
    /\ op_ids = {}
    /\ op_status = "none"
    /\ gaf_status = "not_called"
    /\ gaf_before = Attributes
    /\ ras_status = "not_called"
    /\ recon_dict = <<>>
    /\ full_output = NoDict
    /\ vocoder_in = NotCalled
    /\ vocoder_suffix = <<>>

\* synthesize(id_list, synth_output, hparams)
Synthesize(ids, synth_ok, voc_ok) ==
    LET r == run_atom_synth(ids, synth_ok)
    IN /\ op' = "synthesize"
       /\ op_ids' = ids
       /\ GenerateStep(synth_acoustic_model_path # "None", synth_ok)
       /\ ras_status' = r.status
       /\ recon_dict' = r.recon
       /\ full_output' = r.out
       /\ IF r.status = "returned"
          THEN /\ vocoder_in' = Handed(r.out)
               /\ vocoder_suffix' = synth_file_suffix
               /\ op_status' = VocoderStatus(r.out, voc_ok)
          ELSE /\ vocoder_in' = NotCalled
               /\ vocoder_suffix' = <<>>
               /\ op_status' = r.status
       /\ UNCHANGED <<files, synth_file_suffix>>

\* synth_ref_wcad(file_id_list, hparams)
SynthRefWcad(ids, synth_ok, voc_ok) ==
    LET r == run_atom_synth(ids, synth_ok)
        old_synth_file_suffix == synth_file_suffix
        appended == Append(synth_file_suffix, "_wcad_ref")
    IN /\ Len(synth_file_suffix) < MaxSuffixTags
       /\ op' = "synth_ref_wcad"
       /\ op_ids' = ids
       /\ GenerateStep(synth_acoustic_model_path # "None", synth_ok)
       /\ ras_status' = r.status
       /\ recon_dict' = r.recon
       /\ full_output' = r.out
       /\ IF r.status = "returned"
          THEN /\ vocoder_in' = Handed(r.out)
               /\ vocoder_suffix' = appended
               /\ op_status' = VocoderStatus(r.out, voc_ok)
               /\ synth_file_suffix' =
                      IF VocoderStatus(r.out, voc_ok) = "returned"
                      THEN old_synth_file_suffix ELSE appended
          ELSE /\ vocoder_in' = NotCalled
               /\ vocoder_suffix' = <<>>
               /\ op_status' = r.status
               /\ UNCHANGED synth_file_suffix
       /\ UNCHANGED files

\* labels[:, -3] = phrase_curve[:len(labels)] of synth_phrase
PhraseCol == NegCol(3)
PhraseForLabels(id) ==
    LET labels == load_sample(id)
    IN Head_(PhraseCut(id, Len(labels)), Len(labels))
PhraseFits(id) == CanAssign(FullView(load_sample(id)), PhraseForLabels(id))
PhraseOverride(id) ==
    LET labels == load_sample(id)
    IN AssignColumn(labels, FullView(labels), PhraseCol, PhraseForLabels(id))

\* synth_phrase(file_id_list, hparams)
SynthPhrase(ids, voc_ok) ==
    LET out == [isNone |-> FALSE, dict |-> [id \in ids |-> PhraseOverride(id)]]
        old_synth_file_suffix == synth_file_suffix
        appended == Append(synth_file_suffix, "_phrase")
    IN /\ Len(synth_file_suffix) < MaxSuffixTags
       /\ op' = "synth_phrase"
       /\ op_ids' = ids
       /\ GenerateStep(FALSE, FALSE)
       /\ ras_status' = "not_called"
       /\ recon_dict' = <<>>
       /\ full_output' = NoDict
       /\ IF \A id \in ids : PhraseFits(id)
          THEN /\ vocoder_in' = Handed(out)
               /\ vocoder_suffix' = appended
               /\ op_status' = VocoderStatus(out, voc_ok)
               /\ synth_file_suffix' =
                      IF voc_ok THEN old_synth_file_suffix ELSE appended
          ELSE /\ vocoder_in' = NotCalled
               /\ vocoder_suffix' = <<>>
               /\ op_status' = "ValueError"
               /\ UNCHANGED synth_file_suffix
       /\ UNCHANGED files

\* generate_audio_features(id_list, hparams), called on its own.
GenerateAudioFeatures(ids, synth_ok) ==
    /\ op' = "generate_audio_features"
    /\ op_ids' = ids
    /\ IF synth_acoustic_model_path = "None"
       THEN \* the log line concatenates a str and None
            /\ op_status' = "TypeError"
            /\ gaf_status' = "raised"
            /\ gaf_before' = Attributes
            /\ UNCHANGED <<f_synthesize, OutputGen, model_handler>>
       ELSE /\ op_status' = IF synth_ok THEN "returned" ELSE "SynthError"
            /\ GenerateStep(TRUE, synth_ok)
    /\ ras_status' = "not_called"
    /\ recon_dict' = <<>>
    /\ full_output' = NoDict
    /\ vocoder_in' = NotCalled
    /\ vocoder_suffix' = <<>>
    /\ UNCHANGED <<files, synth_file_suffix>>

Next ==
    \/ \E ids \in SUBSET Ids, synth_ok \in SynthOutcomes, voc_ok \in BOOLEAN :
           Synthesize(ids, synth_ok, voc_ok)
    \/ \E ids \in SUBSET Ids, synth_ok \in SynthOutcomes, voc_ok \in BOOLEAN :
           SynthRefWcad(ids, synth_ok, voc_ok)
    \/ \E ids \in SUBSET Ids, voc_ok \in BOOLEAN : SynthPhrase(ids, voc_ok)
    \/ \E ids \in SUBSET Ids, synth_ok \in SynthOutcomes :
           GenerateAudioFeatures(ids, synth_ok)

Spec == Init /\ [][Next]_vars

\* ----------------------------------------------------------------- claims
RanAtomSynth == ras_status # "not_called"
ReturnedMatrices == ras_status = "returned" /\ ~full_output.isNone
\* The acoustic features were loaded, or generate_audio_features came back.
FeaturesObtained == RanAtomSynth /\ gaf_status # "raised"
\* atom contour plus phrase curve at frame i, silence set to lf0_zero.
ExpectedLf0(id, i) ==
    LET s == atom_contour[id][i]
               + (IF i <= Len(phrase_file[id]) THEN phrase_file[id][i] ELSE 0)
    IN IF s <= LogF0SilenceThreshold THEN lf0_zero ELSE s

MgcCols == 1..num_coded_sps
BapCols == (num_coded_sps + 3)..NumCols

\* C2: run_atom_synth writes only the lf0 and the vuv column: every frame of a
\* returned matrix holds, in each MGC and BAP column, the extracted value.
C2_OnlyLf0AndVuvWritten ==
    ReturnedMatrices =>
        \A id \in DOMAIN full_output.dict :
            LET matrix == full_output.dict[id]
            IN /\ Len(matrix) = world_len[id]
               /\ \A i \in 1..Len(matrix) :
                      \A c \in MgcCols \cup BapCols :
                          matrix[i][c] = ExtractedCell(i, c)

\* C2 witness: a returned matrix whose lf0 and vuv were both overwritten.
C2_Witness ==
    /\ ReturnedMatrices
    /\ \E id \in DOMAIN full_output.dict :
           \E i \in 1..Len(full_output.dict[id]) :
               /\ full_output.dict[id][i][Lf0Col] # ExtractedCell(i, Lf0Col)
               /\ full_output.dict[id][i][num_coded_sps + 2]
                      # ExtractedCell(i, num_coded_sps + 2)

\* C3 (as stated): in both cases of synth_acoustic_model_path, once the
\* acoustic features are obtained and the lf0 fits them, run_atom_synth returns
\* a dict that holds a feature matrix for every id of file_id_list.
C3_DictInBothCases ==
    (FeaturesObtained /\ ras_status # "ValueError") =>
        \A id \in op_ids :
            /\ ras_status = "returned"
            /\ ~full_output.isNone
            /\ id \in DOMAIN full_output.dict

\* C4 (as stated): once a call of generate_audio_features has returned,
\* f_synthesize, OutputGen and model_handler each hold the value they had
\* immediately before the call.
C4_AttributesRestored == gaf_status = "returned" => Attributes = gaf_before

\* C5 (as stated): whenever no call is running, whether the calls before
\* returned or raised out of the vocoder run, hparams.synth_file_suffix has
\* the value it started with.
C5_SuffixRestored == synth_file_suffix = <<>>

\* C6 (as stated): synthesis yields one output per requested id: once the
\* acoustic features are obtained and the lf0 fits them, synthesize hands the
\* vocoder a dict whose keys are exactly the ids of synth_output: none is
\* missing and none is added.
C6_OneOutputPerId ==
    (op = "synthesize" /\ FeaturesObtained /\ ras_status # "ValueError") =>
        /\ \A id \in op_ids :
               /\ vocoder_in.called
               /\ ~vocoder_in.isNone
               /\ id \in DOMAIN vocoder_in.dict
        /\ DOMAIN vocoder_in.dict \subseteq op_ids

\* C7: get_recon_from_synth_output returns for every id a contour of len(label)
\* frames, whatever the length of the phrase curve: frame i holds the atom
\* contour plus the phrase curve of frame i where the phrase curve has a
\* frame i, the atom contour alone past its end (silence set to lf0_zero).
C7_ReconAlignedWithPhrase ==
    \A id \in DOMAIN recon_dict :
        /\ Len(recon_dict[id]) = Len(atom_contour[id])
        /\ \A i \in 1..Len(atom_contour[id]) :
               recon_dict[id][i] = ExpectedLf0(id, i)

\* C7 witness: a contour reconstructed against a shorter, non-empty phrase
\* curve, voiced somewhere.
C7_Witness ==
    \E id \in DOMAIN recon_dict :
        /\ 0 < Len(phrase_file[id])
        /\ Len(phrase_file[id]) < Len(atom_contour[id])
        /\ \E i \in 1..Len(recon_dict[id]) : recon_dict[id][i] # lf0_zero

\* C8 (as stated): synth_phrase hands the vocoder, for every id and every frame
\* i of the id's extracted matrix, the phrase-curve value of frame i as lf0 and
\* the extracted value in every other column.
C8_PhraseOverridesLf0 ==
    (op = "synth_phrase" /\ vocoder_in.called) =>
        \A id \in op_ids :
            LET matrix == vocoder_in.dict[id]
            IN /\ Len(matrix) = world_len[id]
               /\ \A i \in 1..Len(matrix) :
                      /\ i <= Len(phrase_file[id])
                      /\ matrix[i][Lf0Col] = phrase_file[id][i]
                      /\ \A c \in (1..NumCols) \ {Lf0Col} :
                             matrix[i][c] = ExtractedCell(i, c)

====
